---- MODULE Spec2Model ----
(***************************************************************************)
(* Paging-structure (page-walk) cache of the x86 MMU model:                *)
(* src/arch/x86/translation_cache.{hh,cc}.                                 *)
(*                                                                         *)
(* Representation choices                                                  *)
(*  - An Addr (uint64_t) is the set of its one-bits, a subset of 0..63,    *)
(*    so that masks and bit-field extraction are exact at full width.      *)
(*  - A uint64_t recency counter is held as its two's-complement           *)
(*    representative: n >= 0 stands for n and n < 0 stands for 2^64 + n.   *)
(*    ++ is then n + 1 (2^64-1, held as -1, steps to 0) and the unsigned   *)
(*    order is U64Less.  Only a window around the wrap point is explored.  *)
(*  - BaseTranslationCache::lruSeq has no initialiser (hh:62, cc:46-61);   *)
(*    its value after construction is any value of the window.             *)
(*  - assert() is modelled as compiled in; a failed assert and a panic()   *)
(*    end the process (status # "ok", no further step).                    *)
(***************************************************************************)
EXTENDS Integers, Sequences, FiniteSets, TLC

\* ------------------------------------------------------------------ bounds
MaxOps == 3         \* calls in one behaviour of Spec (all modes)
MaxLongOps == 4     \* calls in one behaviour of SpecLong (long mode only)
MaxSize == 2        \* largest capacity (_size) a cache is constructed with
SeqWindow == 3      \* the counter starts at most this far below 2^64
MaxPscOps == 4      \* calls in one behaviour of SpecPsc (the aggregate)
MaxKeyBits == 2     \* one-bits in an address of SpecKey
MaxRaceOps == 4     \* insert calls in one behaviour of SpecRace

\* ------------------------------------------------------------ value spaces
AddrBits == 0 .. 63

Levels == {"PML4", "PDP", "PDE"}

LegacyAcc == {"NONE", "LEGACY_32b_PAE", "LEGACY_32b_NO_PAE"}

\* Two PageTableEntry values; the code only copies and compares them.
Payloads == {0, 1}

\* Addresses handed to insert/lookup: 0x0, 0x200000, 0x40000000 and
\* 0x80_0000_0000.
Addrs == { {}, {21}, {30}, {39} }

\* Addresses of the long-mode workload: three distinct keys at every level;
\* bit 20 of 0x100_0010_0000 is below every level's key range.
LongAddrs == { {}, {39}, {40, 20} }

InitSeqs == (0 - SeqWindow) .. 0

NULL == -1          \* a null TranslationCacheEntry*

ABORTED == -2       \* the call did not return

NullHandle == [key |-> {}, value |-> NULL]    \* a null Trie::Handle

\* -------------------------------------------------------- uint64_t helpers
U64Inc(v) == v + 1

U64Less(a, b) == IF (a < 0) = (b < 0) THEN a < b ELSE a >= 0

\* ------------------------------------------------------------ bit helpers
mbits(val, first, last) == {b \in val : b <= first /\ b >= last}

\* --------------------------------------------------------------- the trie
TrieHas(t, key) == \E n \in t : n.key = key

TrieLookup(t, key) ==
    IF TrieHas(t, key) THEN (CHOOSE n \in t : n.key = key).value ELSE NULL

TrieNode(key, width, val) ==
    [key |-> {b \in key : b >= Cardinality(AddrBits) - width}, value |-> val]

TrieInsert(t, key, width, val) == t \cup {TrieNode(key, width, val)}

TrieRemove(t, handle) == t \ {handle}

\* ------------------------------------------------- level parameters (ctor)
idxMaskBitsH(l) == 12

idxMaskBitsL(l) ==
    CASE l = "PML4" -> 39
      [] l = "PDP"  -> 30
      [] l = "PDE"  -> 21

\* addrMask built from the low shift only.
addrMaskOf_lowOnly(h, l) ==
    {b \in AddrBits : b >= l}

addrMaskOf(h, l) ==
    {b \in AddrBits : b <= Cardinality(AddrBits) - 1 - h} \cap
    {b \in AddrBits : b >= l}

ZeroEntry ==
    [index |-> {}, nextStepEntry |-> 0, lruSeq |-> 0, trieHandle |-> NullHandle]

ZeroStats == [flush |-> 0, insert |-> 0, evict |-> 0, hit |-> 0, miss |-> 0]

BaseTranslationCache(l, _size, seq) ==
    [level        |-> l,
     size         |-> _size,
     lruSeq       |-> seq,
     idxMaskBitsH |-> idxMaskBitsH(l),
     idxMaskBitsL |-> idxMaskBitsL(l),
     addrMask     |-> addrMaskOf(idxMaskBitsH(l), idxMaskBitsL(l)),
     tc           |-> [x \in 0 .. _size - 1 |-> ZeroEntry],
     freeList     |-> [i \in 1 .. _size |-> i - 1],
     trie         |-> {},
     stats        |-> ZeroStats]

\* ---------------------------------------------------------- key derivation
Panic == [panic |-> TRUE, val |-> {}]

Masked(v) == [panic |-> FALSE, val |-> v]

PML4legacyMask(vpn, la) ==
    CASE la = "NONE" -> Masked(vpn)
      [] OTHER       -> Panic

\* PDPlegacyMask whose LEGACY_32b_NO_PAE case shares the PAE case.
PDPlegacyMask_noPaeAccepted(vpn, la) ==
    CASE la = "NONE" -> Masked(vpn)
      [] OTHER       -> Masked(mbits(vpn, 31, 30))

PDPlegacyMask(vpn, la) ==
    CASE la = "NONE"           -> Masked(vpn)
      [] la = "LEGACY_32b_PAE" -> Masked(mbits(vpn, 31, 30))
      [] OTHER                 -> Panic

\* PDElegacyMask with the bit ranges of the two legacy modes exchanged.
PDElegacyMask_swapped(vpn, la) ==
    CASE la = "NONE"              -> Masked(vpn)
      [] la = "LEGACY_32b_PAE"    -> Masked(mbits(vpn, 31, 22))
      [] la = "LEGACY_32b_NO_PAE" -> Masked(mbits(vpn, 31, 21))
      [] OTHER                    -> Panic

PDElegacyMask(vpn, la) ==
    CASE la = "NONE"              -> Masked(vpn)
      [] la = "LEGACY_32b_PAE"    -> Masked(mbits(vpn, 31, 21))
      [] la = "LEGACY_32b_NO_PAE" -> Masked(mbits(vpn, 31, 22))
      [] OTHER                    -> Panic

legacyMask(l, vpn, la) ==
    CASE l = "PML4" -> PML4legacyMask(vpn, la)
      [] l = "PDP"  -> PDPlegacyMask(vpn, la)
      [] l = "PDE"  -> PDElegacyMask(vpn, la)

maskVpn(c, vpn) == c.addrMask \cap vpn

getIdxMaskBitsL(c) == c.idxMaskBitsL

\* ------------------------------------------------------------- operations
\* Every operation maps a cache to [st, c, ret]: how the call ended, the
\* cache afterwards and the entry (pool slot) returned.
Outcome(st, c, ret) == [st |-> st, c |-> c, ret |-> ret]

RECURSIVE lruScan(_, _, _)
lruScan(c, i, lru) ==
    IF i >= c.size THEN lru
    ELSE lruScan(c, i + 1,
                 IF U64Less(c.tc[i].lruSeq, c.tc[lru].lruSeq) THEN i ELSE lru)

\* evictLRU without stats.evict++.
evictLRU_uncounted(c) ==
    LET lru == lruScan(c, 1, 0) IN
    IF c.tc[lru].trieHandle = NullHandle
    THEN Outcome("assert", c, ABORTED)
    ELSE Outcome("ok",
                 [c EXCEPT !.trie = TrieRemove(@, c.tc[lru].trieHandle),
                           !.tc[lru].trieHandle = NullHandle,
                           !.freeList = Append(@, lru)],
                 lru)

evictLRU(c) ==
    LET lru == lruScan(c, 1, 0) IN
    IF c.tc[lru].trieHandle = NullHandle
    THEN Outcome("assert", c, ABORTED)
    ELSE Outcome("ok",
                 [c EXCEPT !.trie = TrieRemove(@, c.tc[lru].trieHandle),
                           !.tc[lru].trieHandle = NullHandle,
                           !.freeList = Append(@, lru),
                           !.stats.evict = @ + 1],
                 lru)

nextSeq(c) == U64Inc(c.lruSeq)

\* insertNew without freeList.pop_front().
insertNew_noPop(c, idx, ptentry) ==
    LET newEntry == Head(c.freeList)
        seq      == nextSeq(c)
        handle   == TrieNode(idx, Cardinality(AddrBits) - getIdxMaskBitsL(c),
                             newEntry)
    IN Outcome("ok",
               [c EXCEPT !.lruSeq = seq,
                         !.tc[newEntry] = [index         |-> idx,
                                           nextStepEntry |-> ptentry,
                                           lruSeq        |-> seq,
                                           trieHandle    |-> handle],
                         !.trie = TrieInsert(@, idx,
                                     Cardinality(AddrBits) - getIdxMaskBitsL(c),
                                     newEntry),
                         !.stats.insert = @ + 1],
               newEntry)

\* insertNew that binds the back of the free list and pops its front.
insertNew_takeBack(c, idx, ptentry) ==
    LET newEntry == c.freeList[Len(c.freeList)]
        seq      == nextSeq(c)
        handle   == TrieNode(idx, Cardinality(AddrBits) - getIdxMaskBitsL(c),
                             newEntry)
    IN Outcome("ok",
               [c EXCEPT !.lruSeq = seq,
                         !.freeList = Tail(@),
                         !.tc[newEntry] = [index         |-> idx,
                                           nextStepEntry |-> ptentry,
                                           lruSeq        |-> seq,
                                           trieHandle    |-> handle],
                         !.trie = TrieInsert(@, idx,
                                     Cardinality(AddrBits) - getIdxMaskBitsL(c),
                                     newEntry),
                         !.stats.insert = @ + 1],
               newEntry)

\* insertExisting that restamps the entry it found.
insertExisting_restamp(c, idx, ptentry, newEntry) ==
    IF c.tc[newEntry].index # idx THEN Outcome("assert", c, ABORTED)
    ELSE IF c.tc[newEntry].nextStepEntry # ptentry
         THEN Outcome("assert", c, ABORTED)
         ELSE Outcome("ok",
                      [c EXCEPT !.lruSeq = nextSeq(c),
                                !.tc[newEntry].lruSeq = nextSeq(c)],
                      newEntry)

\* insert, lines 77-88: take the front of the free list and bind it.
insertNew(c, idx, ptentry) ==
    LET newEntry == Head(c.freeList)
        seq      == nextSeq(c)
        handle   == TrieNode(idx, Cardinality(AddrBits) - getIdxMaskBitsL(c),
                             newEntry)
    IN Outcome("ok",
               [c EXCEPT !.freeList = Tail(@),
                         !.lruSeq = seq,
                         !.tc[newEntry] = [index         |-> idx,
                                           nextStepEntry |-> ptentry,
                                           lruSeq        |-> seq,
                                           trieHandle    |-> handle],
                         !.trie = TrieInsert(@, idx,
                                     Cardinality(AddrBits) - getIdxMaskBitsL(c),
                                     newEntry),
                         !.stats.insert = @ + 1],
               newEntry)

\* insertExisting that ignores the index hit and binds a fresh entry.
insertExisting_rebind(c, idx, ptentry, newEntry) ==
    LET ev == IF c.freeList = << >> THEN evictLRU(c)
                                    ELSE Outcome("ok", c, NULL)
    IN IF ev.st # "ok" THEN ev ELSE insertNew(ev.c, idx, ptentry)

\* insertExisting that stores the new payload in place.
insertExisting_overwrite(c, idx, ptentry, newEntry) ==
    IF c.tc[newEntry].index # idx THEN Outcome("assert", c, ABORTED)
    ELSE Outcome("ok", [c EXCEPT !.tc[newEntry].nextStepEntry = ptentry],
                 newEntry)

\* insertExisting without the payload assertion.
insertExisting_noPayloadAssert(c, idx, ptentry, newEntry) ==
    IF c.tc[newEntry].index # idx THEN Outcome("assert", c, ABORTED)
    ELSE Outcome("ok", c, newEntry)

\* insertExisting that counts the call in stats.insert.
insertExisting_counted(c, idx, ptentry, newEntry) ==
    IF c.tc[newEntry].index # idx THEN Outcome("assert", c, ABORTED)
    ELSE IF c.tc[newEntry].nextStepEntry # ptentry
         THEN Outcome("assert", c, ABORTED)
         ELSE Outcome("ok", [c EXCEPT !.stats.insert = @ + 1], newEntry)

\* insert, lines 68-72: the key is already in the index.
insertExisting(c, idx, ptentry, newEntry) ==
    IF c.tc[newEntry].index # idx THEN Outcome("assert", c, ABORTED)
    ELSE IF c.tc[newEntry].nextStepEntry # ptentry
         THEN Outcome("assert", c, ABORTED)
         ELSE Outcome("ok", c, newEntry)

\* insert that probes the index with the key before maskVpn.
insert_unmaskedProbe(c, vpn, ptentry, la) ==
    LET m == legacyMask(c.level, vpn, la) IN
    IF m.panic THEN Outcome("panic", c, ABORTED)
    ELSE
      LET idx      == maskVpn(c, m.val)
          newEntry == TrieLookup(c.trie, m.val)
      IN
      IF newEntry # NULL THEN insertExisting(c, idx, ptentry, newEntry)
      ELSE
        LET ev == IF c.freeList = << >> THEN evictLRU(c)
                                        ELSE Outcome("ok", c, NULL)
        IN IF ev.st # "ok" THEN ev ELSE insertNew(ev.c, idx, ptentry)

\* insert that recycles an entry before every new binding, free list empty
\* or not.
insert_evictAlways(c, vpn, ptentry, la) ==
    LET m == legacyMask(c.level, vpn, la) IN
    IF m.panic THEN Outcome("panic", c, ABORTED)
    ELSE
      LET idx      == maskVpn(c, m.val)
          newEntry == TrieLookup(c.trie, idx)
      IN
      IF newEntry # NULL THEN insertExisting(c, idx, ptentry, newEntry)
      ELSE
        LET ev == evictLRU(c)
        IN IF ev.st # "ok" THEN ev ELSE insertNew(ev.c, idx, ptentry)

\* insert without the index probe: every call binds a fresh entry.
insert_noProbe(c, vpn, ptentry, la) ==
    LET m == legacyMask(c.level, vpn, la) IN
    IF m.panic THEN Outcome("panic", c, ABORTED)
    ELSE
      LET idx == maskVpn(c, m.val)
          ev  == IF c.freeList = << >> THEN evictLRU(c)
                                       ELSE Outcome("ok", c, NULL)
      IN IF ev.st # "ok" THEN ev ELSE insertNew(ev.c, idx, ptentry)

insert(c, vpn, ptentry, la) ==
    LET m == legacyMask(c.level, vpn, la) IN
    IF m.panic THEN Outcome("panic", c, ABORTED)
    ELSE
      LET idx      == maskVpn(c, m.val)
          newEntry == TrieLookup(c.trie, idx)
      IN
      IF newEntry # NULL THEN insertExisting(c, idx, ptentry, newEntry)
      ELSE
        LET ev == IF c.freeList = << >> THEN evictLRU(c)
                                        ELSE Outcome("ok", c, NULL)
        IN IF ev.st # "ok" THEN ev ELSE insertNew(ev.c, idx, ptentry)

\* lookup that restamps the entry whatever update_lru says.
lookup_alwaysStamp(c, va, la, update_lru) ==
    LET m == legacyMask(c.level, va, la) IN
    IF m.panic THEN Outcome("panic", c, ABORTED)
    ELSE
      LET entry == TrieLookup(c.trie, maskVpn(c, m.val)) IN
      IF entry # NULL
      THEN Outcome("ok",
                   [c EXCEPT !.stats.hit = @ + 1,
                             !.lruSeq = nextSeq(c),
                             !.tc[entry].lruSeq = nextSeq(c)],
                   entry)
      ELSE Outcome("ok", [c EXCEPT !.stats.miss = @ + 1], NULL)

\* lookup that probes the index with the key before maskVpn.
lookup_unmasked(c, va, la, update_lru) ==
    LET m == legacyMask(c.level, va, la) IN
    IF m.panic THEN Outcome("panic", c, ABORTED)
    ELSE
      LET entry == TrieLookup(c.trie, m.val) IN
      IF entry # NULL
      THEN LET hit == [c EXCEPT !.stats.hit = @ + 1] IN
           IF update_lru
           THEN Outcome("ok",
                        [hit EXCEPT !.lruSeq = nextSeq(c),
                                    !.tc[entry].lruSeq = nextSeq(c)],
                        entry)
           ELSE Outcome("ok", hit, entry)
      ELSE Outcome("ok", [c EXCEPT !.stats.miss = @ + 1], NULL)

\* lookup that derives its key as in long mode, whatever la is.
lookup_ignoresMode(c, va, la, update_lru) ==
    LET m == legacyMask(c.level, va, "NONE") IN
    IF m.panic THEN Outcome("panic", c, ABORTED)
    ELSE
      LET entry == TrieLookup(c.trie, maskVpn(c, m.val)) IN
      IF entry # NULL
      THEN LET hit == [c EXCEPT !.stats.hit = @ + 1] IN
           IF update_lru
           THEN Outcome("ok",
                        [hit EXCEPT !.lruSeq = nextSeq(c),
                                    !.tc[entry].lruSeq = nextSeq(c)],
                        entry)
           ELSE Outcome("ok", hit, entry)
      ELSE Outcome("ok", [c EXCEPT !.stats.miss = @ + 1], NULL)

\* lookup that counts a miss as a hit.
lookup_missAsHit(c, va, la, update_lru) ==
    LET m == legacyMask(c.level, va, la) IN
    IF m.panic THEN Outcome("panic", c, ABORTED)
    ELSE
      LET entry == TrieLookup(c.trie, maskVpn(c, m.val)) IN
      IF entry # NULL
      THEN LET hit == [c EXCEPT !.stats.hit = @ + 1] IN
           IF update_lru
           THEN Outcome("ok",
                        [hit EXCEPT !.lruSeq = nextSeq(c),
                                    !.tc[entry].lruSeq = nextSeq(c)],
                        entry)
           ELSE Outcome("ok", hit, entry)
      ELSE Outcome("ok", [c EXCEPT !.stats.hit = @ + 1], NULL)

lookup(c, va, la, update_lru) ==
    LET m == legacyMask(c.level, va, la) IN
    IF m.panic THEN Outcome("panic", c, ABORTED)
    ELSE
      LET entry == TrieLookup(c.trie, maskVpn(c, m.val)) IN
      IF entry # NULL
      THEN LET hit == [c EXCEPT !.stats.hit = @ + 1] IN
           IF update_lru
           THEN Outcome("ok",
                        [hit EXCEPT !.lruSeq = nextSeq(c),
                                    !.tc[entry].lruSeq = nextSeq(c)],
                        entry)
           ELSE Outcome("ok", hit, entry)
      ELSE Outcome("ok", [c EXCEPT !.stats.miss = @ + 1], NULL)

\* The flush loop without the test of trieHandle.
RECURSIVE flushScan_unconditional(_, _)
flushScan_unconditional(c, i) ==
    IF i >= c.size THEN c
    ELSE flushScan_unconditional(
             [c EXCEPT !.trie = TrieRemove(@, c.tc[i].trieHandle),
                       !.tc[i].trieHandle = NullHandle,
                       !.freeList = Append(@, i)],
             i + 1)

RECURSIVE flushScan(_, _)
flushScan(c, i) ==
    IF i >= c.size THEN c
    ELSE IF c.tc[i].trieHandle # NullHandle
         THEN flushScan([c EXCEPT !.trie = TrieRemove(@, c.tc[i].trieHandle),
                                  !.tc[i].trieHandle = NullHandle,
                                  !.freeList = Append(@, i)],
                        i + 1)
         ELSE flushScan(c, i + 1)

\* flush whose loop starts at slot 1.
flush_skipFirst(c) ==
    Outcome("ok", [flushScan(c, 1) EXCEPT !.stats.flush = @ + 1], NULL)

flush(c) ==
    Outcome("ok", [flushScan(c, 0) EXCEPT !.stats.flush = @ + 1], NULL)

\* PageStructureCache::flush without the flush of pdeCache.
PageStructureCache_flush_noPde(cs) ==
    LET a == [cs EXCEPT !["PML4"] = flush(@).c]
        b == [a EXCEPT !["PDP"] = flush(@).c]
    IN Outcome("ok", b, NULL)

\* PageStructureCache::flush: pml4Cache, pdpCache, pdeCache in this order.
PageStructureCache_flush(cs) ==
    LET a == [cs EXCEPT !["PML4"] = flush(@).c]
        b == [a EXCEPT !["PDP"] = flush(@).c]
        d == [b EXCEPT !["PDE"] = flush(@).c]
    IN Outcome("ok", d, NULL)

\* ------------------------------------------------------------------ state
VARIABLES
    caches,     \* the level caches constructed: level -> BaseTranslationCache
    status,     \* "ok", or how the process ended: "panic" / "assert"
    last,       \* the latest call and what it returned
    nops,       \* number of calls made
    repeated,   \* the latest call repeats the call before it
    hist,       \* per level: keys passed to insert so far, all distinct?
    scen,       \* progress of insert(A) insert(B) lookup(A) insert(C)
    race        \* two callers inside insert: where each is, what it holds

vars == <<caches, status, last, nops, repeated, hist, scen, race>>

Threads == {1, 2}

\* A caller outside insert; inside, pc is the next step and vpn, idx,
\* ptentry, lru, newEntry are the locals of insert and evictLRU.
IdleTh ==
    [pc |-> "idle", vpn |-> {}, idx |-> {}, ptentry |-> 0, lru |-> 0,
     newEntry |-> 0]

\* One caller at a time, every call run to completion.
RaceOff ==
    [atomic |-> TRUE, th |-> [t \in Threads |-> IdleTh], dup |-> FALSE,
     twice |-> FALSE]

NoCall ==
    [op |-> "none", lvl |-> "PML4", vpn |-> {}, pte |-> 0, la |-> "NONE",
     upd |-> FALSE, ret |-> NULL]

Call(op, l, vpn, pte, la, upd, ret) ==
    [op |-> op, lvl |-> l, vpn |-> vpn, pte |-> pte, la |-> la, upd |-> upd,
     ret |-> ret]

SameCall(a, b) ==
    /\ a.op = b.op /\ a.lvl = b.lvl /\ a.vpn = b.vpn /\ a.pte = b.pte
    /\ a.la = b.la /\ a.upd = b.upd

\* The key insert/lookup derive for (vpn, la); only used where la is supported.
KeyOf(c, vpn, la) == maskVpn(c, legacyMask(c.level, vpn, la).val)

Supported(l, la) == ~ legacyMask(l, {}, la).panic

Occupied(c) == {i \in 0 .. c.size - 1 : c.tc[i].trieHandle # NullHandle}

ScenOff == [stage |-> 5, a |-> {}, b |-> {}, c |-> {}]

ScenStart == [stage |-> 0, a |-> {}, b |-> {}, c |-> {}]

\* The scenario monitor: stage k means that the calls so far are exactly the
\* first k of insert(A), insert(B), lookup(A, update), insert(C) with
\* pairwise distinct keys A, B, C, all returned.
ScenStep(s, c, call) ==
    IF call.ret = ABORTED \/ s.stage >= 4 THEN ScenOff
    ELSE LET k == KeyOf(c, call.vpn, call.la) IN
      CASE s.stage = 0 /\ call.op = "insert" -> [s EXCEPT !.stage = 1, !.a = k]
        [] s.stage = 1 /\ call.op = "insert" /\ k # s.a
             -> [s EXCEPT !.stage = 2, !.b = k]
        [] s.stage = 2 /\ call.op = "lookup" /\ call.upd /\ k = s.a
             -> [s EXCEPT !.stage = 3]
        [] s.stage = 3 /\ call.op = "insert" /\ k \notin {s.a, s.b}
             -> [s EXCEPT !.stage = 4, !.c = k]
        [] OTHER -> ScenOff

HistStep(h, c, call) ==
    IF call.op = "insert" /\ call.ret # ABORTED
    THEN LET k == KeyOf(c, call.vpn, call.la) IN
         [keys |-> h.keys \cup {k}, distinct |-> h.distinct /\ k \notin h.keys]
    ELSE h

\* One call on level l with outcome r, recorded as call record `call'.
Record(l, r, call) ==
    /\ caches' = [caches EXCEPT ![l] = r.c]
    /\ status' = r.st
    /\ last' = call
    /\ nops' = nops + 1
    /\ repeated' = (last.op # "none" /\ SameCall(last, call))
    /\ hist' = [hist EXCEPT ![l] = HistStep(@, caches[l], call)]
    /\ scen' = ScenStep(scen, caches[l], call)
    /\ UNCHANGED race

Init ==
    /\ \E l \in Levels, n \in 1 .. MaxSize, s \in InitSeqs :
          caches = (l :> BaseTranslationCache(l, n, s))
    /\ status = "ok"
    /\ last = NoCall
    /\ nops = 0
    /\ repeated = FALSE
    /\ hist = [l \in DOMAIN caches |-> [keys |-> {}, distinct |-> TRUE]]
    /\ scen = ScenStart
    /\ race = RaceOff

InsertOf(A, P, M) ==
    /\ status = "ok"
    /\ \E l \in DOMAIN caches, vpn \in A, pte \in P, la \in M :
          LET r == insert(caches[l], vpn, pte, la) IN
          Record(l, r, Call("insert", l, vpn, pte, la, FALSE, r.ret))

LookupOf(A, M) ==
    /\ status = "ok"
    /\ \E l \in DOMAIN caches, va \in A, la \in M, upd \in BOOLEAN :
          LET r == lookup(caches[l], va, la, upd) IN
          Record(l, r, Call("lookup", l, va, 0, la, upd, r.ret))

FlushOf ==
    /\ status = "ok"
    /\ \E l \in DOMAIN caches :
          LET r == flush(caches[l]) IN
          Record(l, r, Call("flush", l, {}, 0, "NONE", FALSE, r.ret))

\* The walker in any addressing mode.
Insert == nops < MaxOps /\ InsertOf(Addrs, Payloads, LegacyAcc)

Lookup == nops < MaxOps /\ LookupOf(Addrs, LegacyAcc)

Flush == nops < MaxOps /\ FlushOf

Next == Insert \/ Lookup \/ Flush

Spec == Init /\ [][Next]_vars

\* The walker in long mode only (la = NONE), over longer runs.
LongInsert == nops < MaxLongOps /\ InsertOf(LongAddrs, Payloads, {"NONE"})

LongLookup == nops < MaxLongOps /\ LookupOf(LongAddrs, {"NONE"})

LongFlush == nops < MaxLongOps /\ FlushOf

NextLong == LongInsert \/ LongLookup \/ LongFlush

SpecLong == Init /\ [][NextLong]_vars

\* The aggregate: a PageStructureCache with its three level caches, the
\* walker inserting in long mode, level flushes and the aggregate flush.
PscSizes == {1, 2}

PscSeqs == {0 - 1, 0}

PscAddrs == { {}, {39} }

PscPayloads == {0}

InitPsc ==
    /\ \E n \in [Levels -> PscSizes], s \in PscSeqs :
          caches = [l \in Levels |-> BaseTranslationCache(l, n[l], s)]
    /\ status = "ok"
    /\ last = NoCall
    /\ nops = 0
    /\ repeated = FALSE
    /\ hist = [l \in Levels |-> [keys |-> {}, distinct |-> TRUE]]
    /\ scen = ScenOff
    /\ race = RaceOff

PscInsert == nops < MaxPscOps /\ InsertOf(PscAddrs, PscPayloads, {"NONE"})

PscLevelFlush == nops < MaxPscOps /\ FlushOf

PscFlush ==
    /\ nops < MaxPscOps
    /\ status = "ok"
    /\ LET r == PageStructureCache_flush(caches)
           call == Call("pscflush", "PML4", {}, 0, "NONE", FALSE, r.ret)
       IN /\ caches' = r.c
          /\ status' = r.st
          /\ last' = call
          /\ nops' = nops + 1
          /\ repeated' = (last.op # "none" /\ SameCall(last, call))
          /\ UNCHANGED hist
          /\ scen' = ScenOff
          /\ UNCHANGED race

NextPsc == PscInsert \/ PscLevelFlush \/ PscFlush

SpecPsc == InitPsc /\ [][NextPsc]_vars

\* Key derivation: one insert(a, mode) on a fresh level cache, then one
\* lookup(b, mode), over addresses built from the bits next to the ends of
\* the key ranges.
KeyBits == {20, 21, 22, 29, 30, 31, 32, 38, 39, 51, 52}

KeyAddrs == {a \in SUBSET KeyBits : Cardinality(a) <= MaxKeyBits}

InitKey ==
    /\ \E l \in Levels :
          caches = (l :> BaseTranslationCache(l, 1, 0))
    /\ status = "ok"
    /\ last = NoCall
    /\ nops = 0
    /\ repeated = FALSE
    /\ hist = [l \in DOMAIN caches |-> [keys |-> {}, distinct |-> TRUE]]
    /\ scen = ScenOff
    /\ race = RaceOff

KeyInsert == nops = 0 /\ InsertOf(KeyAddrs, {0}, LegacyAcc)

KeyLookup == nops = 1 /\ LookupOf(KeyAddrs, {last.la})

NextKey == KeyInsert \/ KeyLookup

SpecKey == InitKey /\ [][NextKey]_vars

\* Two callers on one level cache. With race.atomic each insert is one
\* step; without it the steps of insert interleave: index probe (cc:66-72),
\* free-list test (cc:74), evictLRU scan with its assertion (cc:33-39),
\* evictLRU recycling (cc:40-43), free-list pop (cc:77-78) and binding
\* (cc:80-87). A trie call on a handle whose node is gone, front() on an
\* empty list and a trie insert of a key already held end the process or go
\* on, whichever the build makes of them.
RaceLvl == "PML4"

RaceSizes == {1, 2}

RaceAddrs == { {}, {39} }

\* Two occupied entries hold the same key.
DupKeys(c) ==
    \E i, j \in Occupied(c) : i # j /\ c.tc[i].index = c.tc[j].index

\* Some entry is on the free list twice.
TwiceFree(c) ==
    \E p, q \in 1 .. Len(c.freeList) : p # q /\ c.freeList[p] = c.freeList[q]

InitRace ==
    /\ \E n \in RaceSizes :
          caches = (RaceLvl :> BaseTranslationCache(RaceLvl, n, 0))
    /\ status = "ok"
    /\ last = NoCall
    /\ nops = 0
    /\ repeated = FALSE
    /\ hist = [l \in DOMAIN caches |-> [keys |-> {}, distinct |-> TRUE]]
    /\ scen = ScenOff
    /\ \E a \in BOOLEAN : race = [RaceOff EXCEPT !.atomic = a]

\* Caller t leaves the cache as c with outcome st and locals thr; `started'
\* and `done' tell whether this step enters or leaves insert.
RaceUpdate(t, c, st, thr, started, done, ret) ==
    /\ caches' = [caches EXCEPT ![RaceLvl] = c]
    /\ status' = st
    /\ race' = [race EXCEPT !.th[t] = thr,
                            !.dup = @ \/ DupKeys(c),
                            !.twice = @ \/ TwiceFree(c)]
    /\ nops' = IF started THEN nops + 1 ELSE nops
    /\ last' = IF done
               THEN Call("insert", RaceLvl, thr.vpn, thr.ptentry, "NONE",
                         FALSE, ret)
               ELSE last
    /\ UNCHANGED <<repeated, hist, scen>>

RaceAt(t, pc) == status = "ok" /\ ~ race.atomic /\ race.th[t].pc = pc

\* insert as one step, under mutual exclusion.
RaceAtomicInsert ==
    /\ status = "ok" /\ race.atomic /\ nops < MaxRaceOps
    /\ \E t \in Threads, vpn \in RaceAddrs :
          LET r == insert(caches[RaceLvl], vpn, 0, "NONE") IN
          RaceUpdate(t, r.c, r.st, [IdleTh EXCEPT !.vpn = vpn], TRUE, TRUE,
                     r.ret)

\* cc:65: the key is derived from the arguments.
RaceStart ==
    /\ nops < MaxRaceOps
    /\ \E t \in Threads, vpn \in RaceAddrs :
          /\ RaceAt(t, "idle")
          /\ LET c == caches[RaceLvl] IN
             RaceUpdate(t, c, "ok",
                        [IdleTh EXCEPT !.pc = "probe", !.vpn = vpn,
                                       !.idx = KeyOf(c, vpn, "NONE")],
                        TRUE, FALSE, NULL)

\* cc:66-72: the index probe.
RaceProbe ==
    \E t \in Threads :
       /\ RaceAt(t, "probe")
       /\ LET c  == caches[RaceLvl]
              th == race.th[t]
              e  == TrieLookup(c.trie, th.idx)
          IN IF e # NULL
             THEN LET r == insertExisting(c, th.idx, th.ptentry, e) IN
                  RaceUpdate(t, r.c, r.st, [th EXCEPT !.pc = "idle"],
                             FALSE, TRUE, r.ret)
             ELSE RaceUpdate(t, c, "ok", [th EXCEPT !.pc = "empty"],
                             FALSE, FALSE, NULL)

\* cc:74: freeList.empty().
RaceEmpty ==
    \E t \in Threads :
       /\ RaceAt(t, "empty")
       /\ LET c == caches[RaceLvl] IN
          RaceUpdate(t, c, "ok",
                     [race.th[t] EXCEPT
                        !.pc = IF c.freeList = << >> THEN "scan" ELSE "pop"],
                     FALSE, FALSE, NULL)

\* cc:33-39: the scan of evictLRU and its assertion.
RaceScan ==
    \E t \in Threads :
       /\ RaceAt(t, "scan")
       /\ LET c   == caches[RaceLvl]
              lru == lruScan(c, 1, 0)
          IN IF c.tc[lru].trieHandle = NullHandle
             THEN RaceUpdate(t, c, "assert", race.th[t], FALSE, FALSE,
                             ABORTED)
             ELSE RaceUpdate(t, c, "ok",
                             [race.th[t] EXCEPT !.pc = "recycle",
                                                !.lru = lru],
                             FALSE, FALSE, NULL)

\* cc:40-43: the victim leaves the index and joins the free list. When its
\* handle is null or its node is gone already, trie.remove is undefined.
RaceRecycle ==
    \E t \in Threads :
       /\ RaceAt(t, "recycle")
       /\ LET c   == caches[RaceLvl]
              th  == race.th[t]
              h   == c.tc[th.lru].trieHandle
              gone == h = NullHandle \/ ~ TrieHas(c.trie, h.key)
              d   == [c EXCEPT !.trie = {n \in @ : gone \/ n.key # h.key},
                               !.tc[th.lru].trieHandle = NullHandle,
                               !.freeList = Append(@, th.lru),
                               !.stats.evict = @ + 1]
          IN \/ RaceUpdate(t, d, "ok", [th EXCEPT !.pc = "pop"],
                           FALSE, FALSE, NULL)
             \/ /\ gone
                /\ RaceUpdate(t, c, "crash", th, FALSE, FALSE, ABORTED)

\* cc:77-78: front() and pop_front(); both undefined on an empty list.
RacePop ==
    \E t \in Threads :
       /\ RaceAt(t, "pop")
       /\ LET c  == caches[RaceLvl]
              th == race.th[t]
          IN IF c.freeList # << >>
             THEN RaceUpdate(t, [c EXCEPT !.freeList = Tail(@)], "ok",
                             [th EXCEPT !.pc = "bind",
                                        !.newEntry = Head(c.freeList)],
                             FALSE, FALSE, NULL)
             ELSE \/ RaceUpdate(t, c, "crash", th, FALSE, FALSE, ABORTED)
                  \/ \E e \in 0 .. c.size - 1 :
                        RaceUpdate(t, c, "ok",
                                   [th EXCEPT !.pc = "bind", !.newEntry = e],
                                   FALSE, FALSE, NULL)

\* cc:80-88: the entry is filled in and registered. The trie asserts that
\* the key is new; without the assertion the node takes the new value.
RaceBind ==
    \E t \in Threads :
       /\ RaceAt(t, "bind")
       /\ LET c     == caches[RaceLvl]
              th    == race.th[t]
              seq   == nextSeq(c)
              width == Cardinality(AddrBits) - getIdxMaskBitsL(c)
              node  == TrieNode(th.idx, width, th.newEntry)
              filled == [c EXCEPT !.lruSeq = seq,
                                  !.tc[th.newEntry].nextStepEntry = th.ptentry,
                                  !.tc[th.newEntry].lruSeq = seq,
                                  !.tc[th.newEntry].index = th.idx]
              bound == [filled EXCEPT
                          !.tc[th.newEntry].trieHandle = node,
                          !.trie = {n \in @ : n.key # node.key} \cup {node},
                          !.stats.insert = @ + 1]
          IN \/ RaceUpdate(t, bound, "ok", [th EXCEPT !.pc = "idle"],
                           FALSE, TRUE, th.newEntry)
             \/ /\ TrieHas(c.trie, node.key)
                /\ RaceUpdate(t, filled, "assert", th, FALSE, FALSE, ABORTED)

NextRace ==
    \/ RaceAtomicInsert
    \/ RaceStart \/ RaceProbe \/ RaceEmpty \/ RaceScan \/ RaceRecycle
    \/ RacePop \/ RaceBind

SpecRace == InitRace /\ [][NextRace]_vars

\* ------------------------------------------------------------ observations
Count(c) == Cardinality(Occupied(c))

Returned(call) == call.ret # ABORTED

Max(a, b) == IF a >= b THEN a ELSE b

\* A call was made in this step.
Called == nops' = nops + 1

\* ---------------------------------------------------------------- claims

\* C1 - Idempotent insert: when an insert that returned is followed at once
\* by an insert with the same address, mode and payload on the same cache,
\* the second returns the entry the first returned and leaves the number of
\* occupied entries as the first left it.
C1_IdempotentInsert ==
    [][ ( /\ Called
          /\ last.op = "insert" /\ Returned(last)
          /\ last'.op = "insert" /\ SameCall(last, last') )
        => ( /\ last'.ret = last.ret
             /\ \A l \in DOMAIN caches :
                    Count(caches'[l]) = Count(caches[l]) ) ]_vars

C1_Witness ==
    /\ repeated /\ last.op = "insert" /\ Returned(last)
    /\ caches[last.lvl].size >= 2
    /\ Count(caches[last.lvl]) < caches[last.lvl].size

\* C2 - Capacity bound: while no flush has been made and the inserts made
\* so far had pairwise distinct keys, the occupied count is at most the
\* capacity N and, with d the number of keys inserted, the evict counter is
\* 0 when d <= N and d - N when d = N + k.
C2_CapacityBound ==
    \A l \in DOMAIN caches :
        LET c == caches[l]
            d == Cardinality(hist[l].keys)
        IN (c.stats.flush = 0 /\ hist[l].distinct)
           => /\ Count(c) <= c.size
              /\ c.stats.evict = Max(0, d - c.size)

C2_Witness ==
    \E l \in DOMAIN caches :
        /\ caches[l].stats.flush = 0 /\ hist[l].distinct
        /\ caches[l].size >= 2
        /\ Cardinality(hist[l].keys) = caches[l].size + 1
        /\ caches[l].stats.evict = 1

\* C3 - LRU correctness, the capacity-2 scenario: after insert(A), insert(B),
\* lookup(A) with recency update and insert(C) on an empty cache of capacity
\* 2 (A, B, C distinct keys), B is gone from the index and A and C are in it.
C3_LruScenario ==
    \A l \in DOMAIN caches :
        (scen.stage = 4 /\ caches[l].size = 2)
        => /\ TrieLookup(caches[l].trie, scen.b) = NULL
           /\ TrieLookup(caches[l].trie, scen.a) # NULL
           /\ TrieLookup(caches[l].trie, scen.c) # NULL

\* C4 - Flush completeness: right after flush, a lookup of any address whose
\* key was inserted before misses, no entry is occupied and the free list
\* holds exactly capacity entries.
C4_FlushCompleteness ==
    last.op = "flush" =>
        LET c == caches[last.lvl] IN
        /\ \A a \in Addrs, la \in LegacyAcc, upd \in BOOLEAN :
              (Supported(last.lvl, la) /\ KeyOf(c, a, la) \in hist[last.lvl].keys)
              => lookup(c, a, la, upd).ret = NULL
        /\ Occupied(c) = {}
        /\ Len(c.freeList) = c.size
        /\ {c.freeList[i] : i \in 1 .. Len(c.freeList)} = 0 .. c.size - 1

C4_Witness ==
    /\ last.op = "flush"
    /\ caches[last.lvl].size >= 2
    /\ caches[last.lvl].stats.insert = 2
    /\ caches[last.lvl].stats.evict = 0
    /\ caches[last.lvl].stats.flush = 1

\* C5 - Mode-dependent key collision in the lower-level (PDE) cache of
\* capacity >= 2, starting empty, for insert(0x00000000) followed by
\* insert(0x00200000) under one legacy mode.
Addr0 == {}

Addr200000 == {21}

\* This step is the second of the two inserts, both made under mode m.
C5_SecondInsert(m) ==
    /\ nops = 1 /\ Called
    /\ "PDE" \in DOMAIN caches /\ caches["PDE"].size >= 2
    /\ last.op = "insert" /\ last.lvl = "PDE" /\ Returned(last)
    /\ last.vpn = Addr0 /\ last.la = m
    /\ last'.op = "insert" /\ last'.lvl = "PDE"
    /\ last'.vpn = Addr200000 /\ last'.la = m

C5_TwoEntries(m) ==
    /\ KeyOf(caches["PDE"], Addr0, m) # KeyOf(caches["PDE"], Addr200000, m)
    /\ Returned(last') /\ last'.ret # last.ret
    /\ Count(caches'["PDE"]) = 2

\* C5 as claimed: two entries under the basic legacy mode, and under the
\* extended legacy mode one key, no new entry, the first entry returned.
C5_AsClaimed ==
    [][ /\ C5_SecondInsert("LEGACY_32b_NO_PAE")
           => C5_TwoEntries("LEGACY_32b_NO_PAE")
        /\ C5_SecondInsert("LEGACY_32b_PAE")
           => /\ KeyOf(caches["PDE"], Addr0, "LEGACY_32b_PAE")
                   = KeyOf(caches["PDE"], Addr200000, "LEGACY_32b_PAE")
              /\ Count(caches'["PDE"]) = 1
              /\ last'.ret = last.ret ]_vars

\* C5 amended: two keys and two entries under the extended legacy mode
\* (bits [31:21]); under the basic legacy mode (bits [31:22]) one key, so the
\* second insert creates no entry and, given the payload of the first,
\* returns the entry of the first insert.
C5_KeyCollision ==
    [][ /\ C5_SecondInsert("LEGACY_32b_PAE")
           => C5_TwoEntries("LEGACY_32b_PAE")
        /\ C5_SecondInsert("LEGACY_32b_NO_PAE")
           => /\ KeyOf(caches["PDE"], Addr0, "LEGACY_32b_NO_PAE")
                   = KeyOf(caches["PDE"], Addr200000, "LEGACY_32b_NO_PAE")
              /\ Count(caches'["PDE"]) = 1
              /\ caches'["PDE"].trie = caches["PDE"].trie
              /\ caches'["PDE"].freeList = caches["PDE"].freeList
              /\ (last'.pte = last.pte) => (last'.ret = last.ret) ]_vars

C5_Witness ==
    /\ nops = 2 /\ "PDE" \in DOMAIN caches /\ caches["PDE"].size >= 2
    /\ last.op = "insert" /\ Returned(last)
    /\ last.vpn = Addr200000 /\ last.la = "LEGACY_32b_NO_PAE"
    /\ caches["PDE"].tc[last.ret].index = Addr0
    /\ caches["PDE"].stats.insert = 1
    /\ Count(caches["PDE"]) = 1

\* C6 - Unsupported-mode abort: an insert or lookup on the top-level cache
\* under either legacy mode, or on the middle-level cache under the basic
\* legacy mode, ends in the panic state without returning; no call on the
\* lower-level cache panics, whatever the mode.
C6_Unsupported(l, la) ==
    \/ l = "PML4" /\ la \in {"LEGACY_32b_PAE", "LEGACY_32b_NO_PAE"}
    \/ l = "PDP" /\ la = "LEGACY_32b_NO_PAE"

C6_UnsupportedModeAbort ==
    last.op \in {"insert", "lookup"} =>
        /\ C6_Unsupported(last.lvl, last.la)
              => (status = "panic" /\ last.ret = ABORTED)
        /\ last.lvl = "PDE" => status # "panic"

C6_Witness ==
    /\ status = "panic" /\ last.op = "lookup"
    /\ last.lvl = "PDP" /\ last.la = "LEGACY_32b_NO_PAE"
    /\ nops >= 2

\* C7 - Pool partition invariant: every pool entry is either on the free list
\* exactly once, with no handle and no index node, or off the free list with
\* a handle that is its one node in the index; free-list length plus
\* occupied count is the capacity and every index node refers to an
\* occupied entry.
FreeListCount(c, i) ==
    Cardinality({p \in 1 .. Len(c.freeList) : c.freeList[p] = i})

IndexNodes(c, i) == {n \in c.trie : n.value = i}

C7_PoolPartition ==
    \A l \in DOMAIN caches :
        LET c == caches[l] IN
        /\ DOMAIN c.tc = 0 .. c.size - 1
        /\ \A i \in 0 .. c.size - 1 :
              \/ /\ FreeListCount(c, i) = 1
                 /\ c.tc[i].trieHandle = NullHandle
                 /\ IndexNodes(c, i) = {}
              \/ /\ FreeListCount(c, i) = 0
                 /\ c.tc[i].trieHandle # NullHandle
                 /\ IndexNodes(c, i) = {c.tc[i].trieHandle}
        /\ Len(c.freeList) + Count(c) = c.size
        /\ \A n \in c.trie : n.value \in Occupied(c)

C7_Witness ==
    \E l \in DOMAIN caches :
        /\ caches[l].size >= 2
        /\ caches[l].stats.evict >= 1 /\ caches[l].stats.flush >= 1
        /\ Count(caches[l]) = 0

\* C8 - Key uniqueness: no two occupied entries of a cache hold the same key,
\* and the index returns each occupied entry under the key it stores.
C8_KeyUniqueness ==
    \A l \in DOMAIN caches :
        LET c == caches[l] IN
        /\ \A i, j \in Occupied(c) : c.tc[i].index = c.tc[j].index => i = j
        /\ \A i \in Occupied(c) :
              /\ TrieLookup(c.trie, c.tc[i].index) = i
              /\ c.tc[i].trieHandle.key = c.tc[i].index
        /\ \A m, n \in c.trie : m.key = n.key => m = n

C8_Witness ==
    \E l \in DOMAIN caches :
        /\ caches[l].size >= 2 /\ Count(caches[l]) = 2
        /\ caches[l].stats.evict >= 1
        /\ last.op = "insert" /\ last.vpn = {40, 20} /\ Returned(last)
        /\ caches[l].stats.insert = 3

\* C9 - Payload stability: a key that is in the index before and after a
\* step keeps its payload; a key that enters the index in a step does so in
\* an insert of that key and carries the payload that insert supplied; an
\* entry returned by insert or lookup holds the key asked for.
ResidentKeys(c) == {n.key : n \in c.trie}

PayloadOf(c, k) == c.tc[TrieLookup(c.trie, k)].nextStepEntry

C9_PayloadStability ==
    [][ \A l \in DOMAIN caches :
          /\ \A k \in ResidentKeys(caches[l]) \cap ResidentKeys(caches'[l]) :
                PayloadOf(caches'[l], k) = PayloadOf(caches[l], k)
          /\ \A k \in ResidentKeys(caches'[l]) \ ResidentKeys(caches[l]) :
                /\ last'.op = "insert" /\ last'.lvl = l
                /\ k = KeyOf(caches[l], last'.vpn, last'.la)
                /\ PayloadOf(caches'[l], k) = last'.pte
          /\ (Called /\ last'.lvl = l /\ last'.op \in {"insert", "lookup"}
                /\ last'.ret \notin {NULL, ABORTED})
             => /\ caches'[l].tc[last'.ret].index
                     = KeyOf(caches[l], last'.vpn, last'.la)
                /\ last'.ret
                     = TrieLookup(caches'[l].trie,
                                  KeyOf(caches[l], last'.vpn, last'.la))
                /\ last'.op = "insert"
                   => caches'[l].tc[last'.ret].nextStepEntry = last'.pte ]_vars

\* A key evicted and inserted again with another payload, then hit.
C9_Witness ==
    /\ last.op = "lookup" /\ last.ret \notin {NULL, ABORTED}
    /\ caches[last.lvl].size = 1
    /\ caches[last.lvl].stats.evict = 2
    /\ Cardinality(hist[last.lvl].keys) = 2
    /\ caches[last.lvl].tc[last.ret].nextStepEntry = 1

\* C10 - Mismatched duplicate insert is fatal: an insert whose key is in the
\* index with a payload other than the one supplied ends in the
\* assertion-failure state without returning and leaves the cache (payload,
\* index, free list, entries) as it was.
C10_MismatchedInsert ==
    Called /\ last'.op = "insert" /\ Supported(last'.lvl, last'.la)
    /\ LET c == caches[last'.lvl]
           k == KeyOf(c, last'.vpn, last'.la)
       IN k \in ResidentKeys(c) /\ PayloadOf(c, k) # last'.pte

C10_MismatchedInsertFatal ==
    [][ C10_MismatchedInsert
        => /\ status' = "assert"
           /\ last'.ret = ABORTED
           /\ caches' = caches ]_vars

C10_Witness ==
    /\ status = "assert" /\ last.op = "insert" /\ last.ret = ABORTED
    /\ LET c == caches[last.lvl]
           k == KeyOf(c, last.vpn, last.la)
       IN /\ k \in ResidentKeys(c) /\ PayloadOf(c, k) # last.pte
          /\ Count(c) = 2

\* The cache without its counters: entries, free list, index, recency counter.
Contents(c) == [tc |-> c.tc, freeList |-> c.freeList, trie |-> c.trie,
                lruSeq |-> c.lruSeq]

\* The entry the next eviction would select.
NextVictim(c) == lruScan(c, 1, 0)

\* C11 - Peek lookup: a lookup with update_lru = false, hit or miss, leaves
\* every entry (stamp included), the recency counter, the index and the free
\* list as they were, so the next eviction selects the same victim.
C11_PeekLookup ==
    [][ (Called /\ last'.op = "lookup" /\ ~ last'.upd)
        => LET c == caches[last'.lvl]
               d == caches'[last'.lvl]
           IN /\ Contents(d) = Contents(c)
              /\ NextVictim(d) = NextVictim(c)
              /\ \A k \in LongAddrs :
                    insert(d, k, 0, "NONE").c.tc = insert(c, k, 0, "NONE").c.tc ]_vars

C11_Witness ==
    /\ last.op = "lookup" /\ ~ last.upd /\ last.ret \notin {NULL, ABORTED}
    /\ caches[last.lvl].size >= 2
    /\ Count(caches[last.lvl]) = caches[last.lvl].size
    /\ last.ret = NextVictim(caches[last.lvl])

\* C12 - Flush idempotence: a flush of a cache with no occupied entry leaves
\* the index, the free list (contents and order), every entry and the
\* recency counter as they were; a flush right after a flush is such a flush.
C12_FlushIdempotent ==
    [][ (Called /\ last'.op = "flush")
        => LET c == caches[last'.lvl]
               d == caches'[last'.lvl]
           IN /\ Occupied(c) = {} => Contents(d) = Contents(c)
              /\ last.op = "flush" => Contents(d) = Contents(c) ]_vars

C12_Witness ==
    /\ repeated /\ last.op = "flush"
    /\ caches[last.lvl].stats.insert >= 2
    /\ caches[last.lvl].stats.flush = 2
    /\ caches[last.lvl].size >= 2

\* The counters of st2 minus those of st1.
StatsDelta(st1, st2) ==
    [f \in DOMAIN ZeroStats |-> st2[f] - st1[f]]

\* The keys an operation took out of the index.
KeysRemoved(c, d) == ResidentKeys(c) \ ResidentKeys(d)

\* C14 - Telemetry counters: no counter ever decreases; a lookup that returns
\* adds 1 to hit when it found an entry and 1 to miss when it did not, and
\* nothing else; an insert adds 1 to insert when it binds a new entry and
\* nothing when the key was cached, adds 1 to evict per key it evicted, and
\* leaves hit and miss alone; a flush adds 1 to flush and nothing else.
C14_TelemetryCounters ==
    [][ Called =>
        LET c == caches[last'.lvl]
            d == caches'[last'.lvl]
            delta == StatsDelta(c.stats, d.stats)
            One(f) == [ZeroStats EXCEPT ![f] = 1]
            call == last'
        IN /\ \A f \in DOMAIN ZeroStats : delta[f] >= 0
           /\ ~ Returned(call) => delta = ZeroStats
           /\ (call.op = "lookup" /\ Returned(call))
              => delta = IF call.ret # NULL THEN One("hit") ELSE One("miss")
           /\ (call.op = "insert" /\ Returned(call))
              => LET new == KeyOf(c, call.vpn, call.la) \notin ResidentKeys(c)
                 IN /\ delta.insert = IF new THEN 1 ELSE 0
                    /\ delta.evict = Cardinality(KeysRemoved(c, d))
                    /\ delta.evict = IF new /\ Count(c) = c.size THEN 1 ELSE 0
                    /\ delta.hit = 0 /\ delta.miss = 0 /\ delta.flush = 0
           /\ call.op = "flush" => delta = One("flush") ]_vars

C14_Witness ==
    /\ last.op = "lookup" /\ last.ret = NULL
    /\ caches[last.lvl].stats = [ZeroStats EXCEPT !.insert = 2, !.evict = 1,
                                                  !.miss = 1]

\* The entries other than v are the same in c and d.
OthersKept(c, d, v) == \A i \in (0 .. c.size - 1) \ {v} : d.tc[i] = c.tc[i]

\* C17 - Eviction precondition: the evict counter moves only in an insert of
\* a key absent from the index that finds the free list empty; an insert of
\* a new key that finds a free entry returns without evicting; where evictLRU
\* runs every pool entry is occupied, its victim is occupied so that its
\* assertion passes, it frees exactly that entry and leaves every other
\* entry as it was, and so does the insert as a whole.
C17_EvictionPrecondition ==
    [][ Called =>
        LET c == caches[last'.lvl]
            d == caches'[last'.lvl]
            call == last'
            new == /\ call.op = "insert" /\ Supported(c.level, call.la)
                   /\ KeyOf(c, call.vpn, call.la) \notin ResidentKeys(c)
        IN /\ d.stats.evict # c.stats.evict => (new /\ c.freeList = << >>)
           /\ (new /\ c.freeList # << >>)
              => (Returned(call) /\ d.stats.evict = c.stats.evict)
           /\ (new /\ c.freeList = << >>)
              => LET ev == evictLRU(c)
                     v  == NextVictim(c)
                 IN /\ c.size >= 1 /\ Occupied(c) = 0 .. c.size - 1
                    /\ c.tc[v].trieHandle # NullHandle
                    /\ ev.st = "ok" /\ ev.ret = v
                    /\ Occupied(ev.c) = Occupied(c) \ {v}
                    /\ ev.c.freeList = << v >>
                    /\ ResidentKeys(ev.c) = ResidentKeys(c) \ {c.tc[v].index}
                    /\ OthersKept(c, ev.c, v)
                    /\ Returned(call) /\ call.ret = v
                    /\ d.stats.evict = c.stats.evict + 1
                    /\ OthersKept(c, d, v) ]_vars

C17_Witness ==
    /\ last.op = "insert" /\ Returned(last) /\ nops = 3
    /\ caches[last.lvl].size = 2
    /\ caches[last.lvl].stats.insert = 3
    /\ caches[last.lvl].stats.evict = 1
    /\ caches[last.lvl].stats.flush = 0

\* What an entry is bound to: nothing (FREE) or a key and a payload (OCCUPIED).
Binding(c, i) ==
    IF c.tc[i].trieHandle = NullHandle THEN << "FREE" >>
    ELSE << "OCCUPIED", c.tc[i].index, c.tc[i].nextStepEntry >>

\* C19 - Entry state machine: an entry becomes OCCUPIED only in an insert of
\* a key absent from the index, which returns it; an OCCUPIED entry becomes
\* FREE only in a flush, and loses its key to another only as the victim of
\* an eviction; lookups, with or without recency update, and duplicate
\* inserts change no entry's occupancy, key or payload; a key leaves the
\* index only in a flush or as the key of the evicted victim.
C19_EntryStateMachine ==
    [][ Called =>
        LET c == caches[last'.lvl]
            d == caches'[last'.lvl]
            call == last'
            all == 0 .. c.size - 1
            new == /\ call.op = "insert" /\ Returned(call)
                   /\ KeyOf(c, call.vpn, call.la) \notin ResidentKeys(c)
            evicting == d.stats.evict = c.stats.evict + 1
        IN /\ \A i \in all \ Occupied(c) :
                 i \in Occupied(d) => (new /\ call.ret = i)
           /\ \A i \in Occupied(c) :
                 /\ i \notin Occupied(d) => call.op = "flush"
                 /\ (i \in Occupied(d) /\ Binding(d, i) # Binding(c, i))
                    => (new /\ evicting /\ i = NextVictim(c) /\ call.ret = i)
           /\ (call.op = "lookup" \/ (call.op = "insert" /\ ~ new))
              => /\ \A i \in all : Binding(d, i) = Binding(c, i)
                 /\ d.trie = c.trie /\ d.freeList = c.freeList
           /\ \A k \in ResidentKeys(c) \ ResidentKeys(d) :
                 \/ call.op = "flush"
                 \/ new /\ evicting /\ k = c.tc[NextVictim(c)].index ]_vars

C19_Witness ==
    /\ last.op = "lookup" /\ last.upd /\ last.ret \notin {NULL, ABORTED}
    /\ repeated /\ nops = 4
    /\ caches[last.lvl].stats = [ZeroStats EXCEPT !.insert = 2, !.evict = 1,
                                                  !.hit = 2]

\* C20 - Duplicate insert changes nothing: an insert whose key is in the
\* index with an equal payload leaves every entry (stamp included), the
\* recency counter, the free list, the index and the counters as they were,
\* so the entry the next eviction selects is the same; if the re-inserted
\* entry was that victim before, it still is.
C20_DuplicateInsert ==
    [][ ( /\ Called /\ last'.op = "insert" /\ Supported(last'.lvl, last'.la)
          /\ KeyOf(caches[last'.lvl], last'.vpn, last'.la)
                \in ResidentKeys(caches[last'.lvl])
          /\ PayloadOf(caches[last'.lvl],
                       KeyOf(caches[last'.lvl], last'.vpn, last'.la))
                = last'.pte )
        => LET c == caches[last'.lvl]
               d == caches'[last'.lvl]
           IN /\ Returned(last')
              /\ last'.ret = TrieLookup(c.trie, KeyOf(c, last'.vpn, last'.la))
              /\ d = c
              /\ NextVictim(d) = NextVictim(c)
              /\ NextVictim(c) = last'.ret => NextVictim(d) = last'.ret ]_vars

C20_Witness ==
    /\ last.op = "insert" /\ Returned(last) /\ nops = 3
    /\ caches[last.lvl].size = 2
    /\ caches[last.lvl].stats = [ZeroStats EXCEPT !.insert = 2]
    /\ NextVictim(caches[last.lvl]) = last.ret

\* lookup(a, mode) on cache d returns entry e, bound to payload p and to the
\* key derived from (a, mode).
HitsEntry(d, ret, e, a, p, mode) ==
    /\ ret = e /\ e \in 0 .. d.size - 1
    /\ d.tc[e].trieHandle # NullHandle
    /\ d.tc[e].nextStepEntry = p
    /\ d.tc[e].index = KeyOf(d, a, mode)

\* C18 - Insert-then-lookup round trip: when an insert(a, p, mode) that
\* returned is followed at once by lookup(a, mode) on the same level, with
\* or without recency update, the lookup returns the entry the insert
\* returned, bound to payload p and to the key derived from (a, mode).
C18_RoundTrip ==
    [][ ( /\ Called
          /\ last.op = "insert" /\ Returned(last)
          /\ last'.op = "lookup" /\ last'.lvl = last.lvl
          /\ last'.vpn = last.vpn /\ last'.la = last.la )
        => ( /\ status' = "ok"
             /\ HitsEntry(caches'[last.lvl], last'.ret, last.ret,
                          last.vpn, last.pte, last.la) ) ]_vars

\* On a top-level cache of capacity 1: insert of a key other than {39},
\* insert({39}) evicting it, lookup({39}).
C18_Witness ==
    /\ last.op = "lookup" /\ last.lvl = "PML4" /\ last.vpn = {39}
    /\ last.ret = 0 /\ nops = 3
    /\ caches["PML4"].size = 1
    /\ caches["PML4"].stats = [ZeroStats EXCEPT !.insert = 2, !.evict = 1,
                                                !.hit = 1]

\* No entry of c is occupied, its index is empty and its free list holds
\* each of its entries once.
Flushed(c) ==
    /\ Occupied(c) = {} /\ c.trie = {}
    /\ Len(c.freeList) = c.size
    /\ {c.freeList[i] : i \in 1 .. Len(c.freeList)} = 0 .. c.size - 1

\* C13 - Aggregate flush is total: the step of PageStructureCache::flush
\* leaves each of the three level caches with no occupied entry and a full
\* free list, whatever was cached before, and counts one flush on each; the
\* state it returns in is the only one a caller sees, so none with only
\* some levels flushed.
C13_AggregateFlush ==
    [][ (Called /\ last'.op = "pscflush")
        => /\ DOMAIN caches' = Levels
           /\ status' = "ok"
           /\ \A l \in Levels :
                 /\ Flushed(caches'[l])
                 /\ caches'[l].stats.flush = caches[l].stats.flush + 1
                 /\ caches'[l].stats.flush >= 1 ]_vars

C13_Witness ==
    /\ last.op = "pscflush" /\ nops = 4
    /\ caches["PML4"].size = 1 /\ caches["PDE"].size = 2
    /\ \A l \in Levels :
          caches[l].stats = [ZeroStats EXCEPT !.insert = 1, !.flush = 1]

\* The bits [hi:lo] of an address.
BitRange(hi, lo) == {b \in AddrBits : lo <= b /\ b <= hi}

\* The key bits the table gives for a level and a mode it supports.
KeyRange(l, la) ==
    CASE l = "PML4" /\ la = "NONE"              -> BitRange(51, 39)
      [] l = "PDP"  /\ la = "NONE"              -> BitRange(51, 30)
      [] l = "PDP"  /\ la = "LEGACY_32b_PAE"    -> BitRange(31, 30)
      [] l = "PDE"  /\ la = "NONE"              -> BitRange(51, 21)
      [] l = "PDE"  /\ la = "LEGACY_32b_PAE"    -> BitRange(31, 21)
      [] l = "PDE"  /\ la = "LEGACY_32b_NO_PAE" -> BitRange(31, 22)

\* C16 - Key derivation: the entry an insert(a, mode) binds has as key the
\* address a restricted to the bits listed for the level and mode, all other
\* bits zero; a lookup(b, mode) that follows it hits, on that entry, exactly
\* when a and b agree on the listed bits.
C16_KeyDerivation ==
    [][ Called =>
        LET l == last'.lvl
            d == caches'[l]
        IN /\ (last'.op = "insert" /\ Returned(last'))
              => /\ d.tc[last'.ret].index
                      = last'.vpn \cap KeyRange(l, last'.la)
                 /\ ResidentKeys(d) = {last'.vpn \cap KeyRange(l, last'.la)}
           /\ (last'.op = "lookup" /\ Returned(last')
               /\ last.op = "insert" /\ Returned(last))
              => LET R == KeyRange(l, last.la) IN
                 /\ (last'.ret # NULL) <=> (last'.vpn \cap R = last.vpn \cap R)
                 /\ last'.ret # NULL => last'.ret = last.ret ]_vars

\* A lookup of 0x80_4000_0000 in the middle-level cache under the extended
\* legacy mode hits the entry whose key is 0x4000_0000.
C16_Witness ==
    /\ last.op = "lookup" /\ last.lvl = "PDP" /\ last.la = "LEGACY_32b_PAE"
    /\ last.vpn = {39, 30} /\ last.ret = 0
    /\ caches["PDP"].tc[0].index = {30}
    /\ nops = 2

\* C15 - Non-atomic insert races: with every insert run as one step, no
\* state has two occupied entries with the same key and none has an entry
\* on the free list twice; with the steps of two inserts interleaved both
\* kinds of state are reached (C15_Witness).
C15_InsertRaces ==
    race.atomic =>
        /\ ~ race.dup /\ ~ race.twice
        /\ \A l \in DOMAIN caches :
              ~ DupKeys(caches[l]) /\ ~ TwiceFree(caches[l])

\* Interleaved inserts have left two occupied entries with one key, and two
\* evictions have put one victim on the free list twice.
C15_Witness ==
    /\ ~ race.atomic /\ status = "ok"
    /\ race.dup /\ race.twice
    /\ caches[RaceLvl].stats.evict >= 2

\* The stamps held by the occupied entries of c are pairwise distinct.
DistinctStamps(c) ==
    \A i, j \in Occupied(c) : i # j => c.tc[i].lruSeq # c.tc[j].lruSeq

\* C21 - Recency stamps are strictly increasing: every step that issues a
\* stamp (an insert of a new key or a recency-updating lookup that hits)
\* issues one that is greater, as a 64-bit unsigned value, than the stamp
\* issued last before it and than the stamp of every occupied entry,
\* whatever value the counter had after construction; and the stamps of the
\* occupied entries are pairwise distinct.
C21_StampsIncrease ==
    [][ Called =>
        LET c == caches[last'.lvl]
            d == caches'[last'.lvl]
        IN /\ d.lruSeq # c.lruSeq
              => /\ c.stats.insert > 0 => U64Less(c.lruSeq, d.lruSeq)
                 /\ \A i \in Occupied(c) :
                       c.tc[i].lruSeq # d.lruSeq
                       => U64Less(c.tc[i].lruSeq, d.lruSeq)
           /\ DistinctStamps(d) ]_vars

\* The entries a flush step released: those it pushed on the free list.
Released(c, d, call) ==
    IF call.op = "flush" /\ call.lvl = c.level
    THEN Len(d.freeList) - Len(c.freeList)
    ELSE 0

\* Occupied count = insert counter - evict counter, as long as no flush ran.
NoFlushAccount(c) ==
    c.stats.flush = 0
    => /\ Count(c) = c.stats.insert - c.stats.evict
       /\ c.stats.evict <= c.stats.insert

\* C22 - Occupancy accounting: every call changes the occupied count of a
\* level cache by (change of insert counter) - (change of evict counter) -
\* (entries the call released by flushing), starting from 0 = 0 - 0 at
\* construction, so that occupied count = insert - evict - released in
\* every state; with no flush so far occupied count = insert - evict and
\* evict <= insert.
C22_OccupancyAccounting ==
    [][ Called =>
        \A l \in DOMAIN caches :
           LET c == caches[l]
               d == caches'[l]
           IN /\ Count(d) - Count(c)
                   = (d.stats.insert - c.stats.insert)
                     - (d.stats.evict - c.stats.evict)
                     - Released(c, d, last')
              /\ Released(c, d, last') >= 0
              /\ (nops = 0) => (Count(c) = 0 /\ c.stats = ZeroStats)
              /\ NoFlushAccount(c) /\ NoFlushAccount(d)
              /\ d.stats.evict <= d.stats.insert ]_vars

C22_Witness ==
    /\ last.op = "insert" /\ Returned(last) /\ nops = 4
    /\ caches[last.lvl].size = 1
    /\ Count(caches[last.lvl]) = 1
    /\ caches[last.lvl].stats = [ZeroStats EXCEPT !.insert = 3, !.evict = 1,
                                                  !.flush = 1]

\* The call is made under a mode its level supports, and derives key k.
DerivesKey(c, call, k) ==
    Supported(c.level, call.la) /\ KeyOf(c, call.vpn, call.la) = k

\* C23 - Mode is not part of the key: a lookup under a supported mode hits
\* exactly when the key it derives is in the index, under whatever mode the
\* entry was inserted; right after an insert that returned, a lookup under
\* any supported mode that derives the same key returns the entry the
\* insert returned, and an insert under any supported mode that derives the
\* same key creates no entry: it returns that entry when the payloads are
\* equal and fails the payload assertion when they differ.
C23_ModeNotInKey ==
    [][ Called =>
        LET c == caches[last'.lvl]
            d == caches'[last'.lvl]
            k == KeyOf(c, last.vpn, last.la)
            after == /\ last.op = "insert" /\ Returned(last)
                     /\ last'.lvl = last.lvl
                     /\ DerivesKey(c, last', k)
        IN /\ (last'.op = "lookup" /\ Supported(c.level, last'.la))
              => /\ Returned(last')
                 /\ (last'.ret # NULL)
                      <=> (KeyOf(c, last'.vpn, last'.la) \in ResidentKeys(c))
           /\ (after /\ last'.op = "lookup") => last'.ret = last.ret
           /\ (after /\ last'.op = "insert")
              => /\ Count(d) = Count(c) /\ d.trie = c.trie
                 /\ d.stats.insert = c.stats.insert
                 /\ IF last'.pte = last.pte
                    THEN last'.ret = last.ret
                    ELSE status' = "assert" ]_vars

\* In the lower-level cache, 0x4000_0000 inserted under one mode and then
\* inserted under another: one entry.
C23_Witness ==
    /\ last.op = "insert" /\ last.lvl = "PDE" /\ last.vpn = {30}
    /\ Returned(last) /\ ~ repeated /\ nops = 2
    /\ caches["PDE"].stats.insert = 1
    /\ Count(caches["PDE"]) = 1

====
